---- MODULE Spec2Model ----
(***************************************************************************)
(* Veritas Protocol: the verifier API (api/main.py and the frontend        *)
(* api/index.py), the asset store it uploads to, and the VeritasRegistry   *)
(* contract whose boxes it reads.                                          *)
(*                                                                         *)
(* Representation.                                                         *)
(*  - A string is a sequence of character codes: 0..15 are the lowercase   *)
(*    hex digits '0'..'9','a'..'f' (the code is the digit's value), 26..31 *)
(*    are 'A'..'F' (16 + value) and 99 is a character that is no hex digit.*)
(*  - An ImageHash is its 8x8 bit array flattened row-major: a sequence of *)
(*    64 bits.                                                             *)
(*  - An image is a 2x2 grid of grey levels <<TL, TR, BL, BR>>, the scale  *)
(*    (in percent) of the grey canvas it has been pasted on, and a flag    *)
(*    telling whether it carries single-pixel noise.  An uploaded file is  *)
(*    the image it decodes to, whether it decodes at all, and the set of   *)
(*    catalogue entries whose transform or hashing raises for it; two      *)
(*    files have the same bytes iff they are the same record.              *)
(*  - imagehash.phash is library code: it is taken as a fixed signature of *)
(*    the pixels (phash below); only its being a function of the pixels    *)
(*    matters to the properties.                                           *)
(***************************************************************************)
EXTENDS Integers, Sequences, FiniteSets, TLC

\* ------------------------------------------------------------------ bounds
\* most boxes the contract is followed to
MaxBoxes == 2

\* most entries of the registries the matcher is run on
MaxReg == 3

\* ------------------------------------------------------------- characters
NonHexChar == 99

IsHexChar(c) == c \in (0..15) \cup (26..31)

\* int(c, 16) of one character
HexVal(c) == IF c \in 0..15 THEN c ELSE c - 16

\* str.upper() of one character
UpperChar(c) == IF c \in 10..15 THEN c + 16 ELSE c

Upper(s) == [k \in 1..Len(s) |-> UpperChar(s[k])]

\* ------------------------------------------------------------ image hashes
HashBits == 64

PadCode(pad) == ((pad - 100) \div 25) % 16

\* imagehash.phash on a denoised image: 15 bits per quadrant set by its grey
\* level, the 16th bit of each quadrant set by the canvas scale
phash(img) ==
  [i \in 1..HashBits |->
     LET cell == ((i - 1) \div 16) + 1
         j    == ((i - 1) % 16) + 1
     IN  IF j <= 15
         THEN (IF j <= 5 * img.grid[cell] THEN 1 ELSE 0)
         ELSE (PadCode(img.pad) \div (2 ^ (cell - 1))) % 2]

denoise(img) == [img EXCEPT !.noise = FALSE]

compute_phash(img) == phash(denoise(img))

\* str(ImageHash): the bits, most significant first, as lowercase hex
HashToStr(h) ==
  [k \in 1..(HashBits \div 4) |->
     8 * h[4 * k - 3] + 4 * h[4 * k - 2] + 2 * h[4 * k - 1] + h[4 * k]]

\* imagehash.hex_to_hash raises on a string that int(s, 16) rejects
CanParse(s) == Len(s) > 0 /\ \A k \in 1..Len(s) : IsHexChar(s[k])

\* imagehash.hex_to_hash: the bits of int(s, 16), four per digit
hex_to_hash(s) ==
  [i \in 1..(4 * Len(s)) |->
     (HexVal(s[((i - 1) \div 4) + 1]) \div (2 ^ (3 - ((i - 1) % 4)))) % 2]

\* ImageHash.__sub__ raises TypeError unless both arrays have the same size
SameShape(a, b) == Len(a) = Len(b)

\* ImageHash.__sub__: count of differing bits
Hamming(a, b) == Cardinality({i \in 1..Len(a) : a[i] # b[i]})

\* the comparison `suspect_hash - imagehash.hex_to_hash(stored)` raises
CompareRaises(suspect, stored) ==
  \/ ~CanParse(stored)
  \/ ~SameShape(suspect, hex_to_hash(stored))

Distance(suspect, stored) == Hamming(suspect, hex_to_hash(stored))

\* ------------------------------------------------------ geometric variants
\* PIL rotates counter-clockwise
Rot90(img)  == [img EXCEPT !.grid = <<img.grid[2], img.grid[4], img.grid[1], img.grid[3]>>]
Rot180_None(img) == img

Rot180(img) == [img EXCEPT !.grid = <<img.grid[4], img.grid[3], img.grid[2], img.grid[1]>>]
Rot270_Once(img) == Rot90(img)

Rot270(img) == [img EXCEPT !.grid = <<img.grid[3], img.grid[1], img.grid[4], img.grid[2]>>]
FlipLR_TopBottom(img) ==
  [img EXCEPT !.grid = <<img.grid[3], img.grid[4], img.grid[1], img.grid[2]>>]

FlipLR(img) == [img EXCEPT !.grid = <<img.grid[2], img.grid[1], img.grid[4], img.grid[3]>>]

\* factor in percent
pad_to_scale(img, factor) == [img EXCEPT !.pad = (img.pad * factor) \div 100]

SYMMETRY_TRANSFORMS ==
  << "Original", "90deg Rotation", "180deg Rotation", "270deg Rotation",
     "Horizontal Mirror", "Mirrored 90deg Rotation",
     "Mirrored 180deg Rotation", "Mirrored 270deg Rotation",
     "Zoom-out x1.25", "Zoom-out x1.5", "Zoom-out x2.0",
     "Zoom-out x1.25 + Mirror", "Zoom-out x1.5  + Mirror" >>

\* the lambda of catalogue entry i
Transform(i, img) ==
  CASE i = 1  -> img
    [] i = 2  -> Rot90(img)
    [] i = 3  -> Rot180(img)
    [] i = 4  -> Rot270(img)
    [] i = 5  -> FlipLR(img)
    [] i = 6  -> FlipLR(Rot90(img))
    [] i = 7  -> FlipLR(Rot180(img))
    [] i = 8  -> FlipLR(Rot270(img))
    [] i = 9  -> pad_to_scale(img, 125)
    [] i = 10 -> pad_to_scale(img, 150)
    [] i = 11 -> pad_to_scale(img, 200)
    [] i = 12 -> FlipLR(pad_to_scale(img, 125))
    [] i = 13 -> FlipLR(pad_to_scale(img, 150))

\* api/main.py searches the whole table, the frontend api/index.py the
\* first eight entries
Impls == {"main", "index"}

NumVariants(impl) == IF impl = "main" THEN 13 ELSE 8

\* `best_distance <= 15` in api/main.py, `best_distance <= 10` in api/index.py
Threshold(impl) == IF impl = "main" THEN 15 ELSE 10

\* --------------------------------------------------------- uploaded files
FileA == [pix |-> [grid |-> <<1, 2, 0, 0>>, pad |-> 100, noise |-> FALSE],
          decodes |-> TRUE, fail |-> {}]

\* a retouched copy of A: other bytes, the same picture once denoised
FileAn == [FileA EXCEPT !.pix.noise = TRUE]

\* A turned by 180 degrees and saved again
FileR == [FileA EXCEPT !.pix = Rot180(FileA.pix)]

\* a picture that is its own 180 degree rotation
FileS == [FileA EXCEPT !.pix.grid = <<1, 0, 0, 1>>]

\* A mirrored, for which the mirror and the x2.0 canvas raise
FileZ == [FileA EXCEPT !.pix = FlipLR(FileA.pix), !.fail = {5, 11}]

\* a truncated file: Image.open accepts it, every load of its pixels raises
FileT == [FileA EXCEPT !.fail = 1..13]

\* bytes that are no image: Image.open raises
FileG == [FileA EXCEPT !.decodes = FALSE, !.fail = 1..13]

NoFile == [pix |-> [grid |-> <<0, 0, 0, 0>>, pad |-> 0, noise |-> FALSE],
           decodes |-> FALSE, fail |-> {}]

\* what a failed download answers instead of the asset
ErrorBody == [NoFile EXCEPT !.pix.pad = 1]

Probes == {FileA, FileAn, FileR, FileS, FileZ, FileT, FileG}

ComputeFiles == {FileA, FileAn, FileG}

\* another picture with no symmetry of its own
FileB == [FileA EXCEPT !.pix.grid = <<3, 1, 0, 2>>]

Originals == {FileA, FileB}

\* what a copier makes of a file with entry g of the catalogue, saved again
Copy(g, file) == [file EXCEPT !.pix = Transform(g, file.pix)]

\* the picture as a copier's editor mirrors it left to right
MirrorH(img) ==
  [img EXCEPT !.grid = <<img.grid[2], img.grid[1], img.grid[4], img.grid[3]>>]

\* the copies of the originals under the eight symmetries
SymProbes ==
  {Copy(g, file) : g \in 1..8, file \in Originals}
    \cup {[file EXCEPT !.pix = MirrorH(file.pix)] : file \in Originals}

\* hashlib.sha256(data).hexdigest(): equal digests iff equal bytes
Sha256(data) == <<"sha256", data>>

\* --------------------------------------------------------------- registry
Owners == {"alice", "bob"}

\* the box name is the BoxMap's field name followed by the key
BOX_PREFIX == 100

BoxName(key) == <<BOX_PREFIX>> \o key

\* raw_key[len(BOX_PREFIX):] if raw_key.startswith(BOX_PREFIX) else raw_key
StripPrefix(raw_key) ==
  IF Len(raw_key) > 0 /\ raw_key[1] = BOX_PREFIX THEN Tail(raw_key) ELSE raw_key

\* the address of a 32-byte public key: base32 of the key and its checksum
encode_algorand_address(pk) == <<"ADDR", pk>>

HashA == HashToStr(compute_phash(FileA.pix))

\* the hex string of h with the bit positions in S flipped
FlipBits(s, S) ==
  HashToStr([i \in 1..HashBits |-> IF i \in S THEN 1 - hex_to_hash(s)[i]
                                              ELSE hex_to_hash(s)[i]])

HashR == HashToStr(compute_phash(FileR.pix))

HashB == HashToStr(compute_phash(FileB.pix))

Near(k) == FlipBits(HashA, (HashBits - k + 1)..HashBits)

ShortKey == <<10, 11, 12, 13>>

NonHexKey == [k \in 1..16 |-> IF k = 1 THEN NonHexChar ELSE HashA[k]]

\* keys a wallet may pass to register_work
RegKeys == {HashA, Upper(HashA), HashR, ShortKey}

\* keys of the registries the matcher is run on
MatchKeys == {HashA, Upper(HashA), Near(1), ShortKey, NonHexKey}

Raises == -2

\* `suspect_hash - imagehash.hex_to_hash(stored_hash_str)` for the hash of
\* variant i of a file: the distance, or Raises
Compare(file, i, stored_hash_str) ==
  LET suspect == compute_phash(Transform(i, file.pix))
  IN  IF CompareRaises(suspect, stored_hash_str) THEN Raises
      ELSE Distance(suspect, stored_hash_str)

\* Compare, tabulated once
CompareTable ==
  [file \in Probes \cup SymProbes |-> [i \in 1..13 |->
     [k \in MatchKeys \cup RegKeys \cup {HashB} |-> Compare(file, i, k)]]]

\* ------------------------------------------------------------ the handlers
VARIABLES
  boxes,      \* the contract's BoxMap: box name -> public key of the owner
  assets,     \* the asset store: hash string of the public id -> bytes
  session,    \* per caller, the file of its last answered compute-hash
  regFile,    \* per box, the file whose compute-hash answer was registered
  rq,         \* the API request in progress: the handler's locals
  txn         \* the register_work call in progress and what the AVM did with it

vars == <<boxes, assets, session, regFile, rq, txn>>

NoDistance == -1      \* best_distance = None
NoHash == <<>>        \* best_match_hash = None
NoOwner == <<"None">> \* best_match_owner = None

NoSha == <<"None">>   \* original_sha = None

NoResult == [status |-> "", score |-> NoDistance, matched_hash |-> NoHash,
             owner |-> NoOwner, variant |-> ""]

IdleRq ==
  [pc |-> "idle", op |-> "", impl |-> "main", data |-> NoFile,
   registry |-> <<>>, chain |-> "", phash_str |-> NoHash, uploaded |-> FALSE,
   vi |-> 0, ri |-> 0,
   best_distance |-> NoDistance, best_match_hash |-> NoHash,
   best_match_owner |-> NoOwner, best_transform |-> "Original",
   hashed |-> {}, compared |-> {}, fetch |-> "", original_sha |-> NoSha,
   result |-> NoResult]

ErrorResult == [NoResult EXCEPT !.status = "error"]

OkResult == [NoResult EXCEPT !.status = "ok"]

NoTxn == [sender |-> "", p_hash |-> <<>>, status |-> "none"]

\* the orders in which the box listing can enumerate the boxes in `names`
RECURSIVE Orderings(_)
Orderings(names) ==
  IF names = {} THEN {<<>>}
  ELSE UNION {{<<n>> \o rest : rest \in Orderings(names \ {n})} : n \in names}

\* fetch_registry_from_chain: the boxes of `listing`, decoded in that order;
\* `got` boxes are read before a request raises (all of them if none does)
RECURSIVE fetch_registry_from_chain(_, _, _)
fetch_registry_from_chain(bx, listing, got) ==
  IF got = 0 \/ listing = <<>> THEN <<>>
  ELSE LET phash_hex == StripPrefix(Head(listing))
           entry == [key |-> phash_hex,
                     owner |-> encode_algorand_address(bx[Head(listing)])]
           rest == fetch_registry_from_chain(bx, Tail(listing), got - 1)
       IN  <<entry>> \o rest

NoRegistry_Unchecked(registry) == FALSE

\* `if not registry`
NoRegistry(registry) == registry = <<>>

\* the handler up to the search: read, open, fetch the registry, test it;
\* `fetched` is what fetch_registry_from_chain returned and how it ended
VerifyOpen(file, impl, fetched) ==
  IF ~file.decodes
  THEN [IdleRq EXCEPT !.pc = "done", !.op = "verify", !.impl = impl,
                      !.data = file, !.result = ErrorResult]
  ELSE IF NoRegistry(fetched.registry)
  THEN [IdleRq EXCEPT !.pc = "done", !.op = "verify", !.impl = impl,
                      !.data = file, !.chain = fetched.chain,
                      !.result = [NoResult EXCEPT !.status = "No Registry"]]
  ELSE [IdleRq EXCEPT !.pc = "transform", !.op = "verify", !.impl = impl,
                      !.data = file, !.registry = fetched.registry,
                      !.chain = fetched.chain, !.vi = 1]

Improves_OrEqual(distance, best) == best = NoDistance \/ distance <= best

\* `best_distance is None or distance < best_distance`
Improves(distance, best) == best = NoDistance \/ distance < best

Found_NoBreak(best) == FALSE

\* `if best_distance == 0: break`, in the inner and in the outer loop
Found(best) == best = 0

\* one step of the two nested loops
SearchStep(r) ==
  IF r.pc = "transform"
  THEN IF r.vi > NumVariants(r.impl)
       THEN [r EXCEPT !.pc = "classify"]
       ELSE IF r.vi \in r.data.fail
       THEN [r EXCEPT !.vi = r.vi + 1]
       ELSE [r EXCEPT !.pc = "compare", !.ri = 1,
                      !.hashed = r.hashed \cup {r.vi}]
  ELSE \* r.pc = "compare"
       IF r.ri > Len(r.registry)
       THEN IF Found(r.best_distance)
            THEN [r EXCEPT !.pc = "classify"]
            ELSE [r EXCEPT !.pc = "transform", !.vi = r.vi + 1]
       ELSE LET stored == r.registry[r.ri]
                distance == CompareTable[r.data][r.vi][stored.key]
            IN  IF distance = Raises
                THEN [r EXCEPT !.pc = "transform", !.vi = r.vi + 1]
                ELSE LET upd == Improves(distance, r.best_distance)
                         best == IF upd THEN distance ELSE r.best_distance
                     IN  [r EXCEPT
                            !.compared = r.compared \cup {<<r.vi, r.ri>>},
                            !.best_distance = best,
                            !.best_match_hash =
                               IF upd THEN stored.key ELSE r.best_match_hash,
                            !.best_match_owner =
                               IF upd THEN stored.owner ELSE r.best_match_owner,
                            !.best_transform =
                               IF upd THEN SYMMETRY_TRANSFORMS[r.vi]
                                      ELSE r.best_transform,
                            !.pc = IF Found(best) THEN "classify" ELSE "compare",
                            !.ri = IF Found(best) THEN r.ri ELSE r.ri + 1]

\* the whole search: the steps up to the end of the outer loop
RECURSIVE RunSearch(_)
RunSearch(r) ==
  IF r.pc \in {"transform", "compare"} THEN RunSearch(SearchStep(r)) ELSE r

\* what the asset store does with one lookup-and-download
FetchOutcomes == {"ok", "lookup_raises", "download_raises", "http_status"}

\* get_original_sha256_from_cloudinary: None when the lookup or the download
\* raises, else the digest of the body that requests.get returned
get_original_sha256_from_cloudinary(phash_str, store, outcome) ==
  IF phash_str \notin DOMAIN store \/ outcome = "lookup_raises"
     \/ outcome = "download_raises"
  THEN NoSha
  ELSE IF outcome = "http_status" THEN Sha256(ErrorBody)
  ELSE Sha256(store[phash_str])

Matched_OwnerOfFirst(r, status) ==
  [status |-> status, score |-> r.best_distance,
   matched_hash |-> r.best_match_hash, owner |-> r.registry[1].owner,
   variant |-> r.best_transform]

Matched(r, status) ==
  [status |-> status, score |-> r.best_distance,
   matched_hash |-> r.best_match_hash, owner |-> r.best_match_owner,
   variant |-> r.best_transform]

WithinThreshold_Strict(d, impl) == d < Threshold(impl)

\* `best_distance <= 15` / `best_distance <= 10`
WithinThreshold(d, impl) == d <= Threshold(impl)

BytesDiffer_NoneUnchecked(uploaded_sha, original_sha) ==
  uploaded_sha # original_sha

\* `original_sha is not None and uploaded_sha != original_sha`
BytesDiffer(uploaded_sha, original_sha) ==
  original_sha # NoSha /\ uploaded_sha # original_sha

\* the handler after the search; None <= 15 raises TypeError
Classify(r, store, outcome) ==
  LET original_sha ==
        IF r.best_distance = 0 /\ r.impl = "main"
        THEN get_original_sha256_from_cloudinary(r.best_match_hash, store, outcome)
        ELSE NoSha
  IN
  [r EXCEPT
     !.pc = "done",
     !.fetch = IF r.best_distance = 0 /\ r.impl = "main" THEN outcome ELSE "",
     !.original_sha = original_sha,
     !.result =
        IF r.best_distance = 0
        THEN IF r.impl = "main" /\ BytesDiffer(Sha256(r.data), original_sha)
             THEN Matched(r, "Plagiarism Detected")
             ELSE Matched(r, "Original")
        ELSE IF r.best_distance = NoDistance THEN ErrorResult
        ELSE IF WithinThreshold(r.best_distance, r.impl)
             THEN Matched(r, "Plagiarism Detected")
        ELSE [NoResult EXCEPT !.status = "Clear", !.score = r.best_distance,
                              !.variant = r.best_transform]]

\* the outcomes the asset store can have for a request: the lookup of a
\* public id it does not hold raises
Outcomes(r, store) ==
  IF r.best_match_hash \in DOMAIN store THEN FetchOutcomes
  ELSE {"lookup_raises"}

Snapshots_Stale(bx) == {[registry |-> <<>>, chain |-> "ok"]}

\* what fetch_registry_from_chain can return for the boxes bx: every box in
\* the order of the listing, or the boxes read before the read of one box
\* raised, or nothing when the listing request itself raised
Snapshots(bx) ==
  {[registry |-> fetch_registry_from_chain(bx, listing, got),
    chain |-> IF got = Cardinality(DOMAIN bx) THEN "ok" ELSE "box_raises"] :
     listing \in Orderings(DOMAIN bx), got \in 0..Cardinality(DOMAIN bx)}
  \cup {[registry |-> <<>>, chain |-> "listing_raises"]}

EmptyMap == [n \in {} |-> NoFile]

\* ---------------------------------------------------------------- actions
\* requests are taken one at a time: a request or a call starts when no
\* other is in progress

Registered_Unchecked(p_hash, bx) == FALSE

\* `p_hash in self.registered_hashes`
Registered(p_hash, bx) == BoxName(p_hash) \in DOMAIN bx

\* VeritasRegistry.register_work: the assert rejects a registered hash and
\* the AVM drops the whole transaction; else the sender becomes the owner
RegisterWork(sender, p_hash) ==
  /\ rq.pc = "idle" /\ txn = NoTxn
  /\ IF Registered(p_hash, boxes)
     THEN /\ txn' = [sender |-> sender, p_hash |-> p_hash, status |-> "rejected"]
          /\ UNCHANGED <<boxes, regFile>>
     ELSE /\ Cardinality(DOMAIN boxes) < MaxBoxes
          /\ boxes' = (BoxName(p_hash) :> sender) @@ boxes
          /\ regFile' = (BoxName(p_hash) :>
                           (IF session[sender] # NoFile
                               /\ p_hash = HashToStr(compute_phash(session[sender].pix))
                            THEN session[sender] ELSE NoFile)) @@ regFile
          /\ txn' = [sender |-> sender, p_hash |-> p_hash, status |-> "ok"]
  /\ UNCHANGED <<assets, session, rq>>

\* the wallet has been told what became of its transaction
TxnReturn ==
  /\ txn # NoTxn
  /\ txn' = NoTxn
  /\ UNCHANGED <<boxes, assets, session, regFile, rq>>

upload_Overwrite(store, phash_str, file) == (phash_str :> file) @@ store

\* cloudinary.uploader.upload(..., public_id=artwork_<hash>, overwrite=False):
\* an asset already held under the public id is kept
upload(store, phash_str, file) ==
  IF phash_str \in DOMAIN store THEN store ELSE (phash_str :> file) @@ store

\* POST /compute-hash: hash the upload and store it under the hash; an error
\* of the upload (uploaded = FALSE) is not fatal
ComputeHash(caller, file, uploaded) ==
  /\ rq.pc = "idle" /\ txn = NoTxn
  /\ IF ~file.decodes \/ 1 \in file.fail
     THEN /\ rq' = [IdleRq EXCEPT !.pc = "done", !.op = "compute-hash",
                                  !.data = file, !.result = ErrorResult]
          /\ UNCHANGED <<assets, session>>
     ELSE LET phash_str == HashToStr(compute_phash(file.pix))
          IN  /\ assets' = IF uploaded THEN upload(assets, phash_str, file)
                           ELSE assets
              /\ session' = [session EXCEPT ![caller] = file]
              /\ rq' = [IdleRq EXCEPT !.pc = "done", !.op = "compute-hash",
                                      !.data = file, !.phash_str = phash_str,
                                      !.uploaded = uploaded, !.result = OkResult]
  /\ UNCHANGED <<boxes, regFile, txn>>

\* POST /verify, up to the search
VerifyBegin(file, impl) ==
  /\ rq.pc = "idle" /\ txn = NoTxn
  /\ \E fetched \in Snapshots(boxes) : rq' = VerifyOpen(file, impl, fetched)
  /\ UNCHANGED <<boxes, assets, session, regFile, txn>>

\* POST /verify, one step of the search
VerifyStep ==
  /\ rq.pc \in {"transform", "compare"}
  /\ rq' = SearchStep(rq)
  /\ UNCHANGED <<boxes, assets, session, regFile, txn>>

\* POST /verify, the classification and the answer
VerifyClassify ==
  /\ rq.pc = "classify"
  /\ \E outcome \in Outcomes(rq, assets) : rq' = Classify(rq, assets, outcome)
  /\ UNCHANGED <<boxes, assets, session, regFile, txn>>

\* POST /verify as one request
Verify(file, impl) ==
  /\ rq.pc = "idle" /\ txn = NoTxn
  /\ \E fetched \in Snapshots(boxes) :
       LET r == RunSearch(VerifyOpen(file, impl, fetched))
       IN  \E outcome \in Outcomes(r, assets) :
             rq' = IF r.pc = "done" THEN r ELSE Classify(r, assets, outcome)
  /\ UNCHANGED <<boxes, assets, session, regFile, txn>>

\* the answer has been sent: the handler's locals are gone
VerifyReturn ==
  /\ rq.pc = "done" /\ rq.op = "verify"
  /\ rq' = IdleRq
  /\ UNCHANGED <<boxes, assets, session, regFile, txn>>

\* GET /registry: the fetched registry, listed
ListRegistry ==
  /\ rq.pc = "idle" /\ txn = NoTxn
  /\ \E fetched \in Snapshots(boxes) :
       rq' = [IdleRq EXCEPT !.pc = "done", !.op = "registry",
                            !.registry = fetched.registry,
                            !.chain = fetched.chain, !.result = OkResult]
  /\ UNCHANGED <<boxes, assets, session, regFile, txn>>

\* the response of /analyze: the hash of the denoised image among the stages
analyze_artwork(file) ==
  IF ~file.decodes \/ 1 \in file.fail
  THEN [IdleRq EXCEPT !.pc = "done", !.op = "analyze", !.data = file,
                      !.result = ErrorResult]
  ELSE [IdleRq EXCEPT !.pc = "done", !.op = "analyze", !.data = file,
                      !.phash_str = HashToStr(phash(denoise(file.pix))),
                      !.result = OkResult]

Analyze_Uploads(file) ==
  /\ rq.pc = "idle" /\ txn = NoTxn
  /\ rq' = analyze_artwork(file)
  /\ assets' = IF rq'.result = OkResult
               THEN (rq'.phash_str :> file) @@ assets ELSE assets
  /\ UNCHANGED <<boxes, session, regFile, txn>>

\* POST /analyze
Analyze(file) ==
  /\ rq.pc = "idle" /\ txn = NoTxn
  /\ rq' = analyze_artwork(file)
  /\ UNCHANGED <<boxes, assets, session, regFile, txn>>

\* the answer of /compute-hash, /registry or /analyze has been sent
Respond ==
  /\ rq.pc = "done" /\ rq.op # "verify"
  /\ rq' = IdleRq
  /\ UNCHANGED <<boxes, assets, session, regFile, txn>>

\* -------------------------------------------------------- specifications
Init ==
  /\ boxes = EmptyMap
  /\ assets = EmptyMap
  /\ session = [c \in Owners |-> NoFile]
  /\ regFile = EmptyMap
  /\ rq = IdleRq
  /\ txn = NoTxn

Next ==
  \/ \E sender \in Owners, p_hash \in RegKeys : RegisterWork(sender, p_hash)
  \/ TxnReturn
  \/ \E caller \in Owners, file \in ComputeFiles, uploaded \in BOOLEAN :
       ComputeHash(caller, file, uploaded)
  \/ \E file \in Probes, impl \in Impls : Verify(file, impl)
  \/ VerifyReturn
  \/ ListRegistry
  \/ \E file \in Probes : Analyze(file)
  \/ Respond

Spec == Init /\ [][Next]_vars

\* the matcher on its own: any registry of at most MaxReg entries, the
\* search taken step by step
MatchLedgers ==
  UNION {[{BoxName(k) : k \in ks} -> Owners] :
           ks \in {x \in SUBSET MatchKeys : Cardinality(x) <= MaxReg}}

MatchAssets == {EmptyMap, (HashA :> FileAn)}

MatchInit ==
  /\ boxes \in MatchLedgers
  /\ assets \in MatchAssets
  /\ session = [c \in Owners |-> NoFile]
  /\ regFile = [n \in DOMAIN boxes |-> NoFile]
  /\ rq = IdleRq
  /\ txn = NoTxn

MatchNext ==
  \/ \E file \in Probes, impl \in Impls : VerifyBegin(file, impl)
  \/ VerifyStep
  \/ VerifyClassify
  \/ VerifyReturn

MatchSpec == MatchInit /\ [][MatchNext]_vars

\* the hash string compute-hash answers for a file
HashOf(file) == HashToStr(compute_phash(file.pix))

\* the symmetry scenario: one original, hashed and registered by its owner,
\* and verify requests for its copies under the eight symmetries
SymInit ==
  \E original \in Originals, owner \in Owners :
    /\ boxes = (BoxName(HashOf(original)) :> owner)
    /\ regFile = (BoxName(HashOf(original)) :> original)
    /\ assets \in {EmptyMap, (HashOf(original) :> original)}
    /\ session = [c \in Owners |-> IF c = owner THEN original ELSE NoFile]
    /\ rq = IdleRq
    /\ txn = NoTxn

SymNext ==
  \/ \E g \in 1..8, impl \in Impls, n \in DOMAIN regFile :
       VerifyBegin(Copy(g, regFile[n]), impl)
  \/ \E impl \in Impls, n \in DOMAIN regFile :
       VerifyBegin([regFile[n] EXCEPT !.pix = MirrorH(regFile[n].pix)], impl)
  \/ VerifyStep
  \/ VerifyClassify
  \/ VerifyReturn

SymSpec == SymInit /\ [][SymNext]_vars

\* ------------------------------------------------------------- properties
\* the pairs (variant, registry position) of the request's search space
Pairs == (1..NumVariants(rq.impl)) \X (1..Len(rq.registry))

\* the comparison of pair p: a distance, or Raises
PairCompare(p) == CompareTable[rq.data][p[1]][rq.registry[p[2]].key]

\* pairs that have a Hamming distance: the variant can be hashed and the
\* entry's key is a 64-bit hex string
PairsWithDistance ==
  {p \in Pairs : p[1] \notin rq.data.fail /\ PairCompare(p) # Raises}

\* p comes before q in (catalogue order, then registry iteration order)
Before(p, q) == p[1] < q[1] \/ (p[1] = q[1] /\ p[2] < q[2])

MinOf(S) == CHOOSE m \in S : \A x \in S : m <= x

Verdicts == {"Original", "Plagiarism Detected", "Clear"}

\* a verify request has been answered
Answered == rq.pc = "done" /\ rq.op = "verify"

\* the pair the running best names
BestPairs ==
  {p \in Pairs : /\ SYMMETRY_TRANSFORMS[p[1]] = rq.best_transform
                 /\ rq.registry[p[2]].key = rq.best_match_hash
                 /\ rq.registry[p[2]].owner = rq.best_match_owner}

\* C1: for any probe and any non-empty registry snapshot, the best distance
\* verify reports is the minimum Hamming distance over all pairs of the whole
\* catalogue and the whole registry (0 when some pair is at distance 0),
\* whatever the order of the registry.
C1_ReportsExhaustiveMinimum ==
  (Answered /\ rq.result.status \in Verdicts /\ rq.registry # <<>>)
    => rq.result.score = MinOf({PairCompare(p) : p \in PairsWithDistance})

\* C2: once a comparison yields distance 0 no later registry entry is
\* compared and no later variant is transformed or hashed; the search is over
\* and the answer names that pair's variant, hash and owner.
C2_EarlyExit ==
  \A p \in rq.compared :
    PairCompare(p) = 0 =>
      /\ \A q \in rq.compared : ~Before(p, q)
      /\ \A v \in rq.hashed : v <= p[1]
      /\ rq.pc \in {"classify", "done"}
      /\ Answered =>
           /\ rq.result.score = 0
           /\ rq.result.variant = SYMMETRY_TRANSFORMS[p[1]]
           /\ rq.result.matched_hash = rq.registry[p[2]].key
           /\ rq.result.owner = rq.registry[p[2]].owner

\* C2 witness: an answered search that stopped at a pair of distance 0 with
\* registry entries and variants left behind it
C2_Witness ==
  /\ Answered
  /\ \E p \in rq.compared :
       /\ PairCompare(p) = 0
       /\ p[1] > 1 /\ p[1] < NumVariants(rq.impl)
       /\ p[2] < Len(rq.registry)

\* C3 (state part): the running best names the first pair, in (catalogue
\* order, registry order), among the compared pairs of minimal distance.
C3_FirstMinimalPair ==
  rq.best_distance # NoDistance =>
    /\ \E p \in BestPairs : p \in rq.compared /\ PairCompare(p) = rq.best_distance
    /\ \A p \in BestPairs, q \in rq.compared :
         /\ PairCompare(q) >= rq.best_distance
         /\ (PairCompare(q) = rq.best_distance /\ q # p) => Before(p, q)
    /\ (Answered /\ rq.result.status \in Verdicts) =>
         /\ rq.result.variant = rq.best_transform
         /\ rq.result.score = rq.best_distance
         /\ rq.result.status # "Clear" =>
              /\ rq.result.matched_hash = rq.best_match_hash
              /\ rq.result.owner = rq.best_match_owner

\* C3 (step part): within a request the running best is replaced only by a
\* strictly smaller distance.
C3_ReplacedOnlyBySmaller ==
  (rq.best_distance # NoDistance /\ rq'.pc # "idle"
     /\ <<rq.best_distance, rq.best_match_hash, rq.best_match_owner, rq.best_transform>>
          # <<rq.best_distance, rq.best_match_hash, rq.best_match_owner, rq.best_transform>>')
    => rq'.best_distance < rq.best_distance

\* C3: among several pairs of the same minimal distance verify reports the
\* first in (catalogue order, then registry iteration order); the running
\* best is replaced only by a strictly smaller distance, never an equal one.
C3_TieKeepsFirst == []C3_FirstMinimalPair /\ [][C3_ReplacedOnlyBySmaller]_vars

\* C3 witness: an answer whose minimal distance, not 0, was reached by two
\* compared pairs of different registry entries and by two variants
C3_Witness ==
  /\ Answered /\ rq.best_distance > 0
  /\ \E p \in rq.compared, q \in rq.compared :
       /\ p[2] # q[2] /\ PairCompare(p) = rq.best_distance
       /\ PairCompare(q) = rq.best_distance
  /\ \E p \in rq.compared, q \in rq.compared :
       /\ p[1] # q[1] /\ PairCompare(p) = rq.best_distance
       /\ PairCompare(q) = rq.best_distance

\* C4: with an empty fetched registry verify answers "No Registry" and has
\* applied no geometric variant and computed no hash of the probe.
C4_EmptyRegistryNoHashing ==
  (rq.pc # "idle" /\ rq.data.decodes /\ rq.registry = <<>>) =>
    /\ rq.hashed = {} /\ rq.compared = {}
    /\ Answered /\ rq.result.status = "No Registry"

\* C4 witness: a decodable probe answered "No Registry"
C4_Witness ==
  Answered /\ rq.data = FileA /\ rq.registry = <<>>
    /\ rq.result.status = "No Registry"

\* every key of the snapshot is a 64-bit hex string
WellFormed(key) == CanParse(key) /\ Len(key) = 16

AllKeysWellFormed ==
  \A j \in 1..Len(rq.registry) : WellFormed(rq.registry[j].key)

\* the search had stopped at a pair of distance 0 before reaching pair p
StoppedBefore(p) ==
  \E q \in rq.compared : PairCompare(q) = 0 /\ (q = p \/ Before(q, p))

\* C5: a variant whose transform or hashing fails is skipped and the search
\* goes on with the next one; whatever set of variants fails, all of them
\* included, verify ends with a verdict record and not an error response.
C5_VariantFailureGivesVerdict ==
  (Answered /\ rq.data.decodes /\ rq.registry # <<>> /\ AllKeysWellFormed) =>
    /\ \A v \in 1..NumVariants(rq.impl) :
         (v \notin rq.data.fail /\ ~StoppedBefore(<<v, 0>>)) => v \in rq.hashed
    /\ rq.result.status \in Verdicts

\* C6: a malformed registry key only removes its entry from the search:
\* every well-formed entry is still compared with every variant's hash,
\* wherever the malformed entry sits, and verify does not end in an error.
C6_MalformedEntryOnlyExcluded ==
  (Answered /\ rq.data.decodes /\ rq.registry # <<>>) =>
    /\ \A p \in PairsWithDistance : p \in rq.compared \/ StoppedBefore(p)
    /\ PairsWithDistance # {} => rq.result.status \in Verdicts

\* C7: at best distance 0 api/main.py answers Derivative ("Plagiarism
\* Detected", score 0) only if the asset stored for the matched hash is
\* retrieved and its SHA-256 differs from the upload's; if the digests are
\* equal or the asset cannot be retrieved (lookup or download fails) it
\* answers Original.
C7_ByteComparisonDecides ==
  (Answered /\ rq.impl = "main" /\ rq.best_distance = 0) =>
    /\ rq.result.score = 0
    /\ rq.result.status =
         IF /\ rq.fetch = "ok"
            /\ Sha256(assets[rq.best_match_hash]) # Sha256(rq.data)
         THEN "Plagiarism Detected" ELSE "Original"

\* C8: with a best distance d > 0 and threshold T (15 in api/main.py, 10 in
\* api/index.py) verify answers Derivative with score d, the matched hash and
\* the owner when d <= T, and Clear with score d when d > T; for every d in
\* 0..64 the answer is one of Original, Derivative, Clear.
C8_ThresholdVerdict ==
  (Answered /\ rq.data.decodes /\ rq.registry # <<>>
     /\ rq.best_distance # NoDistance) =>
    LET d == rq.best_distance
        T == IF rq.impl = "main" THEN 15 ELSE 10
    IN  /\ d \in 0..64
        /\ rq.result.status \in Verdicts
        /\ rq.result.score = d
        /\ d = 0 => rq.result.status \in {"Original", "Plagiarism Detected"}
        /\ (d > 0 /\ d <= T) =>
             /\ rq.result.status = "Plagiarism Detected"
             /\ rq.result.matched_hash = rq.best_match_hash
             /\ rq.result.owner = rq.best_match_owner
             /\ rq.best_match_hash # NoHash /\ rq.best_match_owner # NoOwner
        /\ d > T => rq.result.status = "Clear"

\* C8 witness: api/main.py answers Derivative at a best distance of exactly 15
C8_Witness ==
  /\ Answered /\ rq.impl = "main" /\ rq.best_distance = 15
  /\ rq.result.status = "Plagiarism Detected" /\ rq.result.score = 15

\* the request read every box, and the asset store did not fail
CompleteSnapshot == Len(rq.registry) = Cardinality(DOMAIN boxes)

StoreAnswered == rq.fetch \in {"", "ok"} \/ rq.best_match_hash \notin DOMAIN assets

\* alice ran compute-hash on A and registered the hash it returned
AliceRegisteredA ==
  /\ BoxName(HashA) \in DOMAIN boxes
  /\ boxes[BoxName(HashA)] = "alice"
  /\ regFile[BoxName(HashA)] = FileA

\* C9: once alice has registered A (compute-hash, then register_work with
\* the returned hash), verifying a byte-identical copy of A answers Original
\* with score 0 and owner alice, whatever requests of other parties came
\* before the registration or between it and the verification (stated for
\* registries of well-formed keys, read in full, and an asset store that
\* answers).
C9_RegisteredOriginalVerifies ==
  (Answered /\ rq.data = FileA /\ AliceRegisteredA /\ AllKeysWellFormed
     /\ CompleteSnapshot /\ StoreAnswered) =>
    /\ rq.result.status = "Original"
    /\ rq.result.score = 0
    /\ rq.result.owner = encode_algorand_address("alice")

\* a snapshot in which the 180 degree copy of A can only be matched through
\* A's hash: every key is well formed, A's hash is among them, and no key is
\* the hash of the copy itself or of its 90 degree rotation
RotatedCopyCase ==
  /\ Answered /\ rq.data = FileR
  /\ AllKeysWellFormed
  /\ \E j \in 1..Len(rq.registry) : CompareTable[FileA][1][rq.registry[j].key] = 0
  /\ \A j \in 1..Len(rq.registry) :
       /\ CompareTable[FileR][1][rq.registry[j].key] # 0
       /\ CompareTable[FileR][2][rq.registry[j].key] # 0

\* C10 as stated: verifying a 180 degree rotated copy of the registered A
\* answers score 0, variant "180deg Rotation" and Original; the byte-level
\* comparison does not turn the answer into Derivative.
C10_RotatedCopyIsOriginal ==
  (RotatedCopyCase /\ CompleteSnapshot /\ StoreAnswered) =>
    /\ rq.result.score = 0
    /\ rq.result.variant = "180deg Rotation"
    /\ rq.result.status = "Original"

\* C10 amended: verifying a 180 degree rotated copy of the registered A
\* answers score 0 and variant "180deg Rotation", matched to A's hash; the
\* verdict is Original in api/index.py, and in api/main.py only when no
\* digest of the stored asset was obtained: when one was obtained it differs
\* from the copy's and the verdict is Derivative.
C10_RotatedCopyByteCompared ==
  RotatedCopyCase =>
    /\ rq.result.score = 0
    /\ rq.result.variant = "180deg Rotation"
    /\ CompareTable[FileA][1][rq.result.matched_hash] = 0
    /\ rq.result.status =
         IF rq.impl = "main" /\ rq.original_sha # NoSha
         THEN "Plagiarism Detected" ELSE "Original"

\* C10 witness: api/main.py fetched A's stored bytes for the rotated copy and
\* answered Derivative through the 180 degree variant
C10_Witness ==
  /\ RotatedCopyCase /\ rq.impl = "main" /\ rq.fetch = "ok"
  /\ rq.original_sha = Sha256(FileA)
  /\ rq.result.status = "Plagiarism Detected" /\ rq.result.score = 0
  /\ rq.result.variant = "180deg Rotation"

\* ------------------------------------------------ symmetry properties
\* the copy of a file mirrored left to right
Mirrored(file) == [file EXCEPT !.pix = MirrorH(file.pix)]

\* the registered original of the symmetry scenario
Registered0 == regFile[CHOOSE n \in DOMAIN regFile : TRUE]

\* verify of the copy `file` of the registered original against the
\* registry {H: owner}, answered
VerifiedCopy(file) ==
  /\ Answered /\ rq.data = file
  /\ Len(rq.registry) = 1 /\ rq.registry[1].key = HashOf(Registered0)

\* C11 as stated: verify(Rot90(O), {H: owner}) reports best distance 0 with
\* the 90 degree rotation as the variant used.
C11_Rot90FoundByRot90 ==
  VerifiedCopy(Copy(2, Registered0)) =>
    /\ rq.best_distance = 0 /\ rq.result.score = 0
    /\ rq.result.variant = "90deg Rotation"

\* C11 amended: verify(Rot90(O), {H: owner}) reports best distance 0, the
\* registered hash and its owner, and the variant used is the 270 degree
\* rotation, the catalogue entry that turns the copy back into O.
C11_Rot90FoundByRot270 ==
  VerifiedCopy(Copy(2, Registered0)) =>
    /\ rq.best_distance = 0 /\ rq.result.score = 0
    /\ rq.result.variant = "270deg Rotation"
    /\ rq.result.matched_hash = HashOf(Registered0)
    /\ rq.result.owner = rq.registry[1].owner
    /\ rq.compared = {<<v, 1>> : v \in 1..4}

\* C11 witness: the 90 degree copy of an original was matched at distance 0
\* after the first three catalogue entries had missed
C11_Witness ==
  /\ VerifiedCopy(Copy(2, Registered0))
  /\ rq.result.score = 0 /\ rq.result.variant = "270deg Rotation"
  /\ {1, 2, 3, 4} \subseteq rq.hashed

\* C12: verify(MirrorH(O), {H: owner}) reports best distance 0 with the
\* horizontal mirror as the variant used (and the registered hash and owner),
\* after the identity and the three rotations have missed.
C12_MirrorFoundByMirror ==
  VerifiedCopy(Mirrored(Registered0)) =>
    /\ rq.best_distance = 0 /\ rq.result.score = 0
    /\ rq.result.variant = "Horizontal Mirror"
    /\ rq.result.matched_hash = HashOf(Registered0)
    /\ rq.result.owner = rq.registry[1].owner
    /\ rq.compared = {<<v, 1>> : v \in 1..5}

\* C12 witness: the mirrored copy of an original was matched at distance 0
\* through the fifth catalogue entry
C12_Witness ==
  /\ VerifiedCopy(Mirrored(Registered0))
  /\ rq.result.score = 0 /\ rq.result.variant = "Horizontal Mirror"
  /\ rq.hashed = 1..5

\* ------------------------------------------------- registry properties
\* the registry fetch of the request raised: in the listing request, or in
\* the read of one box
FetchFailed == rq.chain \in {"listing_raises", "box_raises"}

\* C13: when the registry fetch fails (the listing request or the read of
\* any single box raises or times out) verify does not fail the request and
\* degrades to the empty-registry answer "No Registry".
C13_FetchFailureGivesNoRegistry ==
  (Answered /\ FetchFailed) => rq.result.status = "No Registry"

\* what one step does to the ledger: every entry stays, with its owner; a
\* register_work call for a registered hash is rejected and changes no box;
\* a call for a new hash adds that hash alone, owned by the sender
C14_Step ==
  /\ \A n \in DOMAIN boxes : n \in DOMAIN boxes' /\ boxes'[n] = boxes[n]
  /\ (txn = NoTxn /\ txn' # NoTxn) =>
       IF BoxName(txn'.p_hash) \in DOMAIN boxes
       THEN txn'.status = "rejected" /\ boxes' = boxes
       ELSE /\ txn'.status = "ok"
            /\ DOMAIN boxes' = DOMAIN boxes \cup {BoxName(txn'.p_hash)}
            /\ boxes'[BoxName(txn'.p_hash)] = txn'.sender
  /\ txn' = txn => boxes' = boxes

\* C14: after any sequence of register_work calls by any senders every
\* registered hash has one owner, the sender of the first call for it: a call
\* for a registered hash is rejected and leaves the registry unchanged, and
\* no call removes an entry or changes an owner.
C14_FirstOwnerKept == [][C14_Step]_vars

\* C14 witness: the ledger is full, and a call by another party for a hash
\* that is registered has just been rejected
C14_Witness ==
  /\ txn.status = "rejected"
  /\ Cardinality(DOMAIN boxes) = MaxBoxes
  /\ boxes[BoxName(txn.p_hash)] # txn.sender

\* the ledger's entries as the API decodes them
Ledger(bx) ==
  {[key |-> StripPrefix(n), owner |-> encode_algorand_address(bx[n])] :
     n \in DOMAIN bx}

\* the entries the request in progress holds
Held == {rq.registry[j] : j \in 1..Len(rq.registry)}

\* C15: every verify and /registry request fetches the registry from the
\* ledger during the request and keeps nothing from an earlier one: between
\* requests no registry is held, and a request whose fetch went through
\* holds exactly the entries the ledger has at that time, so it sees every
\* registration that succeeded before it started.
C15_FetchedFresh ==
  /\ rq.pc = "idle" => rq = IdleRq
  /\ (rq.pc # "idle" /\ rq.op \in {"verify", "registry"} /\ rq.chain = "ok") =>
       /\ Held = Ledger(boxes)
       /\ Len(rq.registry) = Cardinality(DOMAIN boxes)
  /\ (rq.pc # "idle" /\ rq.op \in {"verify", "registry"}) =>
       Held \subseteq Ledger(boxes)

\* C15 witness: after a compute-hash request, alice's registration and
\* another party's, a verify request of A holds both entries and answers
\* with alice's
C15_Witness ==
  /\ Answered /\ rq.chain = "ok" /\ rq.data = FileA
  /\ AliceRegisteredA /\ Len(rq.registry) = 2
  /\ rq.result.owner = encode_algorand_address("alice")

\* the operations that only read
ReadOnlyOps == {"verify", "registry", "analyze"}

\* a step of a verify, /registry or /analyze request, its answer included,
\* leaves every box and every stored asset as it was
C16_Step ==
  (rq' # rq /\ (rq.op \in ReadOnlyOps \/ rq'.op \in ReadOnlyOps)) =>
    boxes' = boxes /\ assets' = assets

\* C16: verify, /registry and /analyze leave the ledger registry and the
\* asset store unchanged whatever their outcome (verdict, "No Registry" or
\* error); the fetch of the original for the byte comparison only reads.
C16_ReadOnlyRequests == [][C16_Step]_vars

\* C16 witness: a verify request has downloaded the stored original for the
\* byte comparison and answered, with boxes and assets in place
C16_Witness ==
  /\ Answered /\ rq.impl = "main" /\ rq.fetch = "ok"
  /\ rq.original_sha = Sha256(assets[rq.best_match_hash])
  /\ DOMAIN boxes # {} /\ rq.data = FileAn

\* catalogue entry h turns the copy made with entry g back into the file
Undoes(h, g, file) == Transform(h, Transform(g, file.pix)) = file.pix

\* C17: the first eight catalogue entries are eight distinct symmetries of
\* the square and the set is closed under inverse: each entry g is undone by
\* exactly one of the eight, and verify(g(O), {H: owner}) reports best
\* distance 0 with the registered hash, found through the entry that undoes g.
C17_DihedralClosure ==
  LET original == Registered0
  IN  /\ Cardinality({Transform(g, original.pix) : g \in 1..8}) = 8
      /\ \A g \in 1..8 :
           /\ Cardinality({h \in 1..8 : Undoes(h, g, original)}) = 1
           /\ VerifiedCopy(Copy(g, original)) =>
                /\ rq.best_distance = 0 /\ rq.result.score = 0
                /\ rq.result.matched_hash = HashOf(original)
                /\ \E h \in 1..8 :
                     /\ Undoes(h, g, original)
                     /\ rq.result.variant = SYMMETRY_TRANSFORMS[h]
                     /\ rq.hashed = 1..h

\* C17 witness: the frontend matched the copy made with the last of the
\* eight entries, a reflection, through that entry itself
C17_Witness ==
  /\ VerifiedCopy(Copy(8, Registered0)) /\ rq.impl = "index"
  /\ rq.result.score = 0
  /\ rq.result.variant = "Mirrored 270deg Rotation"

\* a canonical PerceptualHash string: 16 lowercase hex digits
Canonical(key) == Len(key) = 16 /\ \A k \in 1..Len(key) : key[k] \in 0..15

\* C18: after any sequence of register_work calls every key of the ledger
\* registry is a well-formed PerceptualHash (16 lowercase hex digits), so
\* every entry the registry fetch decodes can be compared with a probe hash.
C18_KeysAreCanonical ==
  \A n \in DOMAIN boxes :
    /\ Canonical(StripPrefix(n))
    /\ ~CompareRaises(compute_phash(FileA.pix), StripPrefix(n))

\* ------------------------------------------------ running-best properties
\* the Hamming distance between the hash of variant v of a probe and a
\* 64-bit key, computed bit by bit and tabulated once
TrueDistance ==
  [file \in Probes |-> [v \in 1..13 |->
     [k \in {x \in MatchKeys \cup RegKeys : CanParse(x) /\ Len(x) = 16} |->
        Cardinality({i \in 1..HashBits :
           phash(denoise(Transform(v, file.pix)))[i] # hex_to_hash(k)[i]})]]]

\* the running best of the request names catalogue entry v and registry
\* entry j, and its distance is the Hamming distance of that pair
BestIs(v, j) ==
  /\ rq.best_transform = SYMMETRY_TRANSFORMS[v]
  /\ rq.best_match_hash = rq.registry[j].key
  /\ rq.best_match_owner = rq.registry[j].owner
  /\ CanParse(rq.best_match_hash) /\ Len(rq.best_match_hash) = 16
  /\ rq.best_distance = TrueDistance[rq.data][v][rq.best_match_hash]

\* C19 (state part): a defined best distance is in 0..64 and is the Hamming
\* distance between the hash of the named variant of the probe and the
\* matched hash, which is a key of the request's snapshot with the owner the
\* snapshot gives it; the answer carries the same fields.
C19_BestConsistent ==
  rq.op = "verify" =>
    /\ rq.best_distance = NoDistance =>
         /\ rq.best_match_hash = NoHash /\ rq.best_match_owner = NoOwner
         /\ rq.best_transform = "Original"
    /\ rq.best_distance # NoDistance =>
         /\ rq.best_distance \in 0..64
         /\ \E v \in 1..NumVariants(rq.impl), j \in 1..Len(rq.registry) :
              v \in rq.hashed /\ BestIs(v, j)
    /\ (Answered /\ rq.result.status \in {"Original", "Plagiarism Detected"}) =>
         /\ rq.result.score = rq.best_distance
         /\ rq.result.variant = rq.best_transform
         /\ \E j \in 1..Len(rq.registry) :
              /\ rq.result.matched_hash = rq.registry[j].key
              /\ rq.result.owner = rq.registry[j].owner
    /\ (Answered /\ rq.result.status = "Clear") =>
         /\ rq.result.score = rq.best_distance
         /\ rq.result.variant = rq.best_transform

\* C19 (step part): within a request the four fields change together, to
\* the pair that has just been compared
C19_UpdatedTogether ==
  (rq.op = "verify" /\ rq'.op = "verify"
     /\ <<rq.best_distance, rq.best_match_hash, rq.best_match_owner, rq.best_transform>>
          # <<rq.best_distance, rq.best_match_hash, rq.best_match_owner, rq.best_transform>>')
    => /\ rq.pc = "compare" /\ rq'.best_distance # rq.best_distance
       /\ rq'.best_match_hash = rq.registry[rq.ri].key
       /\ rq'.best_match_owner = rq.registry[rq.ri].owner
       /\ rq'.best_transform = SYMMETRY_TRANSFORMS[rq.vi]

\* C19: at every step of verify's search and in its result the four fields
\* of the running best are consistent with each other and with the snapshot
\* of this request, and they are updated together.
C19_BestFieldsConsistent == []C19_BestConsistent /\ [][C19_UpdatedTogether]_vars

\* C19 witness: a search over three entries whose best was replaced on the
\* way and ended on a later variant and a later entry than the first
C19_Witness ==
  /\ Answered /\ Len(rq.registry) = 3 /\ rq.best_distance > 0
  /\ rq.best_transform # "Original"
  /\ rq.best_match_hash # rq.registry[1].key
  /\ rq.result.status = "Plagiarism Detected"

\* --------------------------------------------------- asset properties
\* the step is a compute-hash request that answered a hash
HashAnswered == rq.pc = "idle" /\ rq'.op = "compute-hash" /\ rq'.result = OkResult

\* every stored asset stays, with its bytes
AssetsKept == \A h \in DOMAIN assets : h \in DOMAIN assets' /\ assets'[h] = assets[h]

\* C20 as stated (step): the first compute-hash request whose image hashes
\* to H stores its bytes under H and every later one leaves the asset as it
\* is; the hash answered does not depend on the upload.
C20_FirstRequestStoresStep ==
  /\ AssetsKept
  /\ HashAnswered =>
       /\ rq'.phash_str = HashOf(rq'.data)
       /\ assets' = IF rq'.phash_str \in DOMAIN assets THEN assets
                    ELSE (rq'.phash_str :> rq'.data) @@ assets

\* C20 as stated: the asset under H is written at most once, by the first
\* compute-hash request whose image hashes to H.
C20_FirstRequestStores == [][C20_FirstRequestStoresStep]_vars

\* C20 amended (step): a stored asset is never replaced or removed; a
\* compute-hash request with hash H stores its bytes under H iff no asset is
\* held under H and its upload goes through, so the asset is written by the
\* first request with hash H whose upload succeeds; whether or not the upload
\* fails the request answers the hash of its image.
C20_FirstUploadStoresStep ==
  /\ AssetsKept
  /\ HashAnswered =>
       /\ rq'.phash_str = HashOf(rq'.data)
       /\ assets' = IF rq'.phash_str \in DOMAIN assets \/ ~rq'.uploaded THEN assets
                    ELSE (rq'.phash_str :> rq'.data) @@ assets
  /\ ~HashAnswered => assets' = assets

\* C20 amended: the asset under H is written at most once, by the first
\* compute-hash request with hash H whose upload succeeds.
C20_FirstUploadStores == [][C20_FirstUploadStoresStep]_vars

\* C20 witness: a compute-hash request with other bytes of the same hash,
\* its upload accepted, has left the asset stored by an earlier one in place
C20_Witness ==
  /\ rq.pc = "done" /\ rq.op = "compute-hash" /\ rq.uploaded
  /\ rq.phash_str \in DOMAIN assets
  /\ assets[rq.phash_str] # rq.data

====
